---- MODULE Spec2Model ----
(***************************************************************************)
(* Model of src/aqi_sensor_app.tsx: the fuzzy classifier                   *)
(* (fuzzyLogic + getEnvironmentCondition) and the connection workflow of   *)
(* the AQISensorApp component (handleIpChange, handleReconfigure, the      *)
(* polling effect and fetchSensorData).                                    *)
(*                                                                         *)
(* Numbers.  A JavaScript number is modelled as a record                   *)
(*   [nan |-> BOOLEAN, n |-> Int]                                          *)
(* where a number that is not NaN has the exact rational value n / Unit.   *)
(* Inputs lie on a grid of tenths, and every divisor the code uses         *)
(* (4, 8, 10, 15, 20, 25, 30, 35, 50, 70) divides Unit / 10.  The code     *)
(* only divides sums and differences of inputs and integer literals, never *)
(* a quotient, so every quotient it forms is represented exactly.          *)
(* Rounding of IEEE doubles and infinities are not modelled.               *)
(***************************************************************************)
EXTENDS Integers, Sequences, FiniteSets, TLC

\* ------------------------------------------------------------------------
\* Bounds of the explored input grid
\* ------------------------------------------------------------------------
MaxRawSteps == 45    \* raw gas values 150, 160, ..., 10 * MaxRawSteps
MaxTempSteps == 22   \* temperatures -4, -2, ..., 2 * MaxTempSteps (Celsius)
MaxHumSteps == 22    \* humidities -10, -5, ..., 5 * MaxHumSteps (percent)
MaxIpLen == 3        \* longest text typed into the IP field

\* ------------------------------------------------------------------------
\* JavaScript numbers
\* ------------------------------------------------------------------------
Unit == 4200 * 10

NaN == [nan |-> TRUE, n |-> 0]

Num(k) == [nan |-> FALSE, n |-> k]

\* the integer literal k
Lit(k) == Num(k * Unit)

\* the decimal literal t / 10
Tenths(t) == Num(t * (Unit \div 10))

IsNaN(x) == x.nan

\* a - b
Sub(a, b) == IF a.nan \/ b.nan THEN NaN ELSE Num(a.n - b.n)

\* a / d for a literal divisor d
Div(a, d) == IF a.nan THEN NaN ELSE Num(a.n \div d)

\* the comparisons are false as soon as an operand is NaN
Lt(a, b) == ~a.nan /\ ~b.nan /\ a.n < b.n

Le(a, b) == ~a.nan /\ ~b.nan /\ a.n <= b.n

Gt(a, b) == ~a.nan /\ ~b.nan /\ a.n > b.n

Ge(a, b) == ~a.nan /\ ~b.nan /\ a.n >= b.n

\* Math.abs
MathAbs(a) == IF a.nan THEN NaN ELSE Num(IF a.n < 0 THEN -a.n ELSE a.n)

\* mutant: a maximum that skips NaN arguments
MathMaxSkippingNaN(a, b) ==
    IF a.nan THEN b ELSE IF b.nan THEN a ELSE IF a.n >= b.n THEN a ELSE b

\* Math.max / Math.min: NaN as soon as one argument is NaN
MathMax(a, b) == IF a.nan \/ b.nan THEN NaN ELSE IF a.n >= b.n THEN a ELSE b

MathMin(a, b) == IF a.nan \/ b.nan THEN NaN ELSE IF a.n <= b.n THEN a ELSE b

MathMax3(a, b, c) == MathMax(MathMax(a, b), c)

MathMin3(a, b, c) == MathMin(MathMin(a, b), c)

\* ------------------------------------------------------------------------
\* fuzzyLogic.aqiMembership
\* ------------------------------------------------------------------------
AqiExcellent(a) == MathMax(Lit(0), Sub(Lit(1), Div(a, 20)))

AqiGood(a) ==
    IF Lt(a, Lit(20))
    THEN MathMax(Lit(0), Div(a, 20))
    ELSE MathMax(Lit(0), Sub(Lit(1), Div(Sub(a, Lit(20)), 30)))

\* the two branches of `moderate`
AqiModerateInRange(a) == MathMin(Lit(1), Div(Sub(a, Lit(30)), 30))

AqiModerateOutOfRange(a) ==
    MathMax(Lit(0), Sub(Lit(1), Div(MathAbs(Sub(a, Lit(65))), 35)))

AqiModerate(a) ==
    IF Ge(a, Lit(30)) /\ Lt(a, Lit(80))
    THEN AqiModerateInRange(a)
    ELSE AqiModerateOutOfRange(a)

\* mutant: the ramp of `poor` divided by the width of its range
AqiPoorInRangeOver80(a) == MathMin(Lit(1), Div(Sub(a, Lit(70)), 80))

\* the two branches of `poor`
AqiPoorInRange(a) == MathMin(Lit(1), Div(Sub(a, Lit(70)), 50))

AqiPoorOutOfRange(a) ==
    MathMax(Lit(0), Sub(Lit(1), Div(MathAbs(Sub(a, Lit(120))), 50)))

AqiPoor(a) ==
    IF Ge(a, Lit(70)) /\ Lt(a, Lit(150))
    THEN AqiPoorInRange(a)
    ELSE AqiPoorOutOfRange(a)

AqiHazardous(a) == MathMin(Lit(1), MathMax(Lit(0), Div(Sub(a, Lit(130)), 70)))

aqiMembership(deviation) ==
    LET absDeviation == MathAbs(deviation)
    IN  [excellent |-> AqiExcellent(absDeviation),
         good      |-> AqiGood(absDeviation),
         moderate  |-> AqiModerate(absDeviation),
         poor      |-> AqiPoor(absDeviation),
         hazardous |-> AqiHazardous(absDeviation)]

\* ------------------------------------------------------------------------
\* fuzzyLogic.tempMembership
\* ------------------------------------------------------------------------
TempCold(t) == MathMax(Lit(0), Sub(Lit(1), Div(Sub(t, Lit(10)), 10)))

\* the ramps on either side of the `comfortable` plateau
TempComfortableBelow(t) == MathMax(Lit(0), Div(Sub(t, Lit(10)), 8))

\* mutant: the upper ramp starts at 24 instead of 26
TempComfortableAboveFrom24(t) ==
    MathMax(Lit(0), Sub(Lit(1), Div(Sub(t, Lit(24)), 8)))

TempComfortableAbove(t) == MathMax(Lit(0), Sub(Lit(1), Div(Sub(t, Lit(26)), 8)))

TempComfortable(t) ==
    IF Ge(t, Lit(18)) /\ Le(t, Lit(26))
    THEN Lit(1)
    ELSE IF Lt(t, Lit(18)) THEN TempComfortableBelow(t)
                           ELSE TempComfortableAbove(t)

TempWarm(t) ==
    IF Ge(t, Lit(24)) /\ Le(t, Lit(32))
    THEN MathMin(Lit(1), Div(Sub(t, Lit(24)), 4))
    ELSE MathMax(Lit(0), Sub(Lit(1), Div(MathAbs(Sub(t, Lit(28))), 8)))

TempHot(t) == MathMin(Lit(1), MathMax(Lit(0), Div(Sub(t, Lit(30)), 10)))

tempMembership(t) ==
    [cold        |-> TempCold(t),
     comfortable |-> TempComfortable(t),
     warm        |-> TempWarm(t),
     hot         |-> TempHot(t)]

\* ------------------------------------------------------------------------
\* fuzzyLogic.humidityMembership
\* ------------------------------------------------------------------------
HumDry(h) == MathMax(Lit(0), Sub(Lit(1), Div(h, 30)))

HumComfortableBelow(h) == MathMax(Lit(0), Div(h, 30))

HumComfortableAbove(h) == MathMax(Lit(0), Sub(Lit(1), Div(Sub(h, Lit(60)), 20)))

HumComfortable(h) ==
    IF Ge(h, Lit(30)) /\ Le(h, Lit(60))
    THEN Lit(1)
    ELSE IF Lt(h, Lit(30)) THEN HumComfortableBelow(h)
                           ELSE HumComfortableAbove(h)

HumHumid(h) ==
    IF Ge(h, Lit(50)) /\ Le(h, Lit(80))
    THEN MathMin(Lit(1), Div(Sub(h, Lit(50)), 15))
    ELSE MathMax(Lit(0), Sub(Lit(1), Div(MathAbs(Sub(h, Lit(65))), 25)))

HumVeryHumid(h) == MathMin(Lit(1), MathMax(Lit(0), Div(Sub(h, Lit(70)), 20)))

humidityMembership(h) ==
    [dry         |-> HumDry(h),
     comfortable |-> HumComfortable(h),
     humid       |-> HumHumid(h),
     veryHumid   |-> HumVeryHumid(h)]

\* ------------------------------------------------------------------------
\* getEnvironmentCondition: rule set and arg-max
\* ------------------------------------------------------------------------
\* key order of the `conditions` object literal, which Object.entries follows
Labels == <<"excellent", "good", "suitable", "moderate", "poor", "hazardous">>

RuleExcellent(aqi, tmp, hum) ==
    MathMin3(aqi.excellent, tmp.comfortable, hum.comfortable)

RuleGood(aqi, tmp, hum) ==
    MathMax(MathMin(aqi.good, tmp.comfortable),
            MathMin(aqi.excellent, MathMax(tmp.warm, hum.humid)))

\* mutant: the second rule of `suitable` joined by OR instead of AND
RuleSuitableOrForAnd(aqi, tmp, hum) ==
    MathMax(MathMin(aqi.moderate, tmp.comfortable),
            MathMax(aqi.good, MathMax(tmp.warm, tmp.cold)))

RuleSuitable(aqi, tmp, hum) ==
    MathMax(MathMin(aqi.moderate, tmp.comfortable),
            MathMin(aqi.good, MathMax(tmp.warm, tmp.cold)))

RuleModerate(aqi, tmp, hum) ==
    MathMax3(aqi.moderate,
             MathMin(aqi.good, MathMax(hum.humid, hum.dry)),
             MathMin(tmp.hot, hum.veryHumid))

RulePoor(aqi, tmp, hum) ==
    MathMax(aqi.poor,
            MathMin(aqi.moderate, MathMax(tmp.hot, hum.veryHumid)))

RuleHazardous(aqi, tmp, hum) ==
    MathMax(aqi.hazardous,
            MathMin3(aqi.poor, tmp.hot, hum.veryHumid))

Conditions(aqi, tmp, hum) ==
    [excellent |-> RuleExcellent(aqi, tmp, hum),
     good      |-> RuleGood(aqi, tmp, hum),
     suitable  |-> RuleSuitable(aqi, tmp, hum),
     moderate  |-> RuleModerate(aqi, tmp, hum),
     poor      |-> RulePoor(aqi, tmp, hum),
     hazardous |-> RuleHazardous(aqi, tmp, hum)]

\* mutant: the reducer replaces on >= instead of >
ReduceStepNotStrict(max, key, value) ==
    IF Ge(value, max.value) THEN [condition |-> key, value |-> value] ELSE max

\* the reducer callback: value > max.value ? {condition: key, value} : max
ReduceStep(max, key, value) ==
    IF Gt(value, max.value) THEN [condition |-> key, value |-> value] ELSE max

\* mutant: the reduce starts from the first label instead of moderate
ReduceInitialExcellent == [condition |-> "excellent", value |-> Lit(0)]

\* the initial accumulator of the reduce
ReduceInitial == [condition |-> "moderate", value |-> Lit(0)]

\* Object.entries(conditions).reduce(callback, initial), folded over the
\* first i entries
RECURSIVE ReduceEntries(_, _)
ReduceEntries(conds, i) ==
    IF i = 0
    THEN ReduceInitial
    ELSE ReduceStep(ReduceEntries(conds, i - 1), Labels[i], conds[Labels[i]])

MaxCondition(conds) == ReduceEntries(conds, Len(Labels))

\* the label getEnvironmentCondition returns
getEnvironmentCondition(raw, base, t, h) ==
    LET deviation == Sub(raw, base)
    IN  MaxCondition(Conditions(aqiMembership(deviation),
                                tempMembership(t),
                                humidityMembership(h))).condition

\* ------------------------------------------------------------------------
\* AQISensorApp: text of the IP field, the simulated reading
\* ------------------------------------------------------------------------
IpChars == {" ", "1", "."}

\* useState('192.168.4.1')
DefaultIp == <<"1", "9", "2", ".", "1", "6", "8", ".", "4", ".", "1">>

IpTexts == UNION {[1..n -> IpChars] : n \in 0..MaxIpLen}

RECURSIVE TrimStart(_)
TrimStart(s) ==
    IF s # <<>> /\ Head(s) = " " THEN TrimStart(Tail(s)) ELSE s

RECURSIVE TrimEnd(_)
TrimEnd(s) ==
    IF s # <<>> /\ s[Len(s)] = " " THEN TrimEnd(SubSeq(s, 1, Len(s) - 1)) ELSE s

\* String.prototype.trim
Trim(s) == TrimEnd(TrimStart(s))

\* truthiness of a string
Truthy(s) == s # <<>>

\* data is null (<<>>) or holds one reading (<<reading>>)
Null == <<>>

NoError == "null"

simulatedData ==
    [mq135       |-> Lit(306),
     baseline    |-> Lit(200),
     deviation   |-> Lit(106),
     temperature |-> Tenths(267),
     humidity    |-> Lit(52)]

\* ------------------------------------------------------------------------
\* State
\* ------------------------------------------------------------------------
VARIABLES
    \* one call of getEnvironmentCondition
    mq135Raw, baseline, temp, humidity,      \* arguments
    pc,                                      \* "call" | "return" | "idle"
    aqiScores, tempScores, humidityScores,   \* membership vectors
    conditions,                              \* activation strengths
    condition,                               \* returned label
    \* component state of AQISensorApp
    data, connected, error, ipAddress, inputIp, isConfigured,
    interval,                                \* TRUE while the setInterval timer is armed
    effectPending,                           \* the effect's dependencies changed in the last render
    lastCall                                 \* the callback that ran last

classifierVars ==
    <<mq135Raw, baseline, temp, humidity, pc,
      aqiScores, tempScores, humidityScores, conditions, condition>>

hookState == <<data, connected, error, ipAddress, inputIp, isConfigured>>

appVars == <<hookState, interval, effectPending, lastCall>>

vars == <<classifierVars, appVars>>

\* ------------------------------------------------------------------------
\* Input grid of the classifier
\* ------------------------------------------------------------------------
RawValues ==
    {Lit(10 * k) : k \in 15..MaxRawSteps} \cup {simulatedData.mq135, NaN}

BaselineValues == {Lit(200), Lit(205)}

TempValues ==
    {Lit(2 * k) : k \in (-2)..MaxTempSteps} \cup {simulatedData.temperature, NaN}

HumidityValues ==
    {Lit(5 * k) : k \in (-2)..MaxHumSteps} \cup {simulatedData.humidity, NaN}

\* the component right after mounting (the mount effect starts nothing,
\* isConfigured being false)
AppMounted ==
    /\ data = Null
    /\ connected = FALSE
    /\ error = NoError
    /\ ipAddress = <<>>
    /\ inputIp = DefaultIp
    /\ isConfigured = FALSE
    /\ interval = FALSE
    /\ effectPending = FALSE
    /\ lastCall = "mount"

NoResult ==
    /\ aqiScores = <<>>
    /\ tempScores = <<>>
    /\ humidityScores = <<>>
    /\ conditions = <<>>
    /\ condition = "none"

\* ------------------------------------------------------------------------
\* Classifier: one call of getEnvironmentCondition on any grid reading
\* ------------------------------------------------------------------------
Init ==
    /\ mq135Raw \in RawValues
    /\ baseline \in BaselineValues
    /\ temp \in TempValues
    /\ humidity \in HumidityValues
    /\ pc = "call"
    /\ NoResult
    /\ AppMounted

GetEnvironmentCondition ==
    /\ pc = "call"
    /\ LET deviation == Sub(mq135Raw, baseline)
           aqi == aqiMembership(deviation)
           tmp == tempMembership(temp)
           hum == humidityMembership(humidity)
           conds == Conditions(aqi, tmp, hum)
       IN  /\ aqiScores' = aqi
           /\ tempScores' = tmp
           /\ humidityScores' = hum
           /\ conditions' = conds
           /\ condition' = MaxCondition(conds).condition
    /\ pc' = "return"
    /\ UNCHANGED <<mq135Raw, baseline, temp, humidity, appVars>>

Next == GetEnvironmentCondition

Spec == Init /\ [][Next]_vars

\* ------------------------------------------------------------------------
\* AQISensorApp: handlers, effect and poll timer
\* ------------------------------------------------------------------------
\* the body of the try block; nothing in it throws, so the catch block
\* never runs
fetchSensorData ==
    /\ data' = <<simulatedData>>
    /\ connected' = TRUE
    /\ error' = NoError

\* a render whose [ipAddress, isConfigured] differ from the previous
\* render's schedules the effect
DepsChanged == ipAddress' # ipAddress \/ isConfigured' # isConfigured

\* onChange of the text field, rendered only on the configuration screen
SetInputIp(text) ==
    /\ ~effectPending
    /\ ~isConfigured
    /\ inputIp' = text
    /\ lastCall' = "setInputIp"
    /\ UNCHANGED <<data, connected, error, ipAddress, isConfigured,
                   interval, effectPending, classifierVars>>

\* the guard of handleIpChange
IpAccepted(text) == Truthy(Trim(text))

\* onClick / Enter on the configuration screen
handleIpChange ==
    /\ ~effectPending
    /\ ~isConfigured
    /\ lastCall' = "handleIpChange"
    /\ IF IpAccepted(inputIp)
       THEN /\ ipAddress' = inputIp
            /\ isConfigured' = TRUE
            /\ connected' = FALSE
            /\ data' = Null
            /\ error' = NoError
       ELSE UNCHANGED <<ipAddress, isConfigured, connected, data, error>>
    /\ UNCHANGED <<inputIp, interval, classifierVars>>
    /\ effectPending' = DepsChanged

\* onClick of "Change IP Address", rendered on the connecting screen and
\* on the dashboard
handleReconfigure ==
    /\ ~effectPending
    /\ isConfigured
    /\ lastCall' = "handleReconfigure"
    /\ isConfigured' = FALSE
    /\ connected' = FALSE
    /\ data' = Null
    /\ error' = NoError
    /\ UNCHANGED <<ipAddress, inputIp, interval, classifierVars>>
    /\ effectPending' = DepsChanged

\* mutant: the effect polls whenever an address is stored
EffectStartsWithoutConfigured == Truthy(ipAddress)

\* whether the effect body starts polling
EffectStarts == isConfigured /\ Truthy(ipAddress)

\* useEffect(..., [ipAddress, isConfigured]): the previous run's cleanup
\* (clearInterval), then the body.  React runs the effects of a render
\* caused by a click or a key press before it returns to the event loop, so
\* no handler and no timer callback runs while effectPending.
RunEffect ==
    /\ effectPending
    /\ effectPending' = FALSE
    /\ lastCall' = "useEffect"
    /\ IF EffectStarts
       THEN /\ fetchSensorData
            /\ interval' = TRUE
       ELSE /\ interval' = FALSE
            /\ UNCHANGED <<data, connected, error>>
    /\ UNCHANGED <<ipAddress, inputIp, isConfigured, classifierVars>>

\* the setInterval timer fires fetchSensorData
PollTick ==
    /\ ~effectPending
    /\ interval
    /\ lastCall' = "pollTick"
    /\ fetchSensorData
    /\ UNCHANGED <<ipAddress, inputIp, isConfigured, interval, effectPending,
                   classifierVars>>

AppInit ==
    /\ AppMounted
    /\ mq135Raw = simulatedData.mq135
    /\ baseline = simulatedData.baseline
    /\ temp = simulatedData.temperature
    /\ humidity = simulatedData.humidity
    /\ pc = "idle"
    /\ NoResult

AppNext ==
    \/ \E text \in IpTexts : SetInputIp(text)
    \/ handleIpChange
    \/ handleReconfigure
    \/ RunEffect
    \/ PollTick

AppSpec == AppInit /\ [][AppNext]_vars

\* ------------------------------------------------------------------------
\* Vocabulary of the properties
\* ------------------------------------------------------------------------
LabelSet == {Labels[i] : i \in 1..Len(Labels)}

InUnit(x) == ~x.nan /\ 0 <= x.n /\ x.n <= Unit

deviationOfCall == Sub(mq135Raw, baseline)

Returned == pc = "return"

FiniteInputs == ~IsNaN(deviationOfCall) /\ ~IsNaN(temp) /\ ~IsNaN(humidity)

\* index of a label in the canonical order
IndexOf(label) == CHOOSE i \in 1..Len(Labels) : Labels[i] = label

\* the labels whose activation is a number greater than 0
PositiveLabels(conds) == {l \in LabelSet : Gt(conds[l], Lit(0))}

\* among a non-empty set of labels with numeric activations, those of
\* greatest activation
GreatestIn(conds, ls) == {l \in ls : \A m \in ls : conds[l].n >= conds[m].n}

\* the earliest label of a non-empty set, in canonical order
Earliest(ls) == CHOOSE l \in ls : \A m \in ls : IndexOf(l) <= IndexOf(m)

\* ------------------------------------------------------------------------
\* C1: for every deviation, temperature and humidity that is not NaN, each
\* of the 13 membership degrees lies in [0,1].
\* ------------------------------------------------------------------------
C1_MembershipsInUnit ==
    (Returned /\ FiniteInputs) =>
        /\ \A k \in DOMAIN aqiScores : InUnit(aqiScores[k])
        /\ \A k \in DOMAIN tempScores : InUnit(tempScores[k])
        /\ \A k \in DOMAIN humidityScores : InUnit(humidityScores[k])

\* ------------------------------------------------------------------------
\* C2: for every reading without NaN, each of the six activation strengths
\* lies in [0,1].
\* ------------------------------------------------------------------------
C2_ActivationsInUnit ==
    (Returned /\ FiniteInputs) => \A l \in LabelSet : InUnit(conditions[l])

\* a call in which a membership degree exceeds 1 and feeds a rule that fires
C2_Witness ==
    /\ Returned
    /\ FiniteInputs
    /\ Gt(tempScores.cold, Lit(1))
    /\ Gt(aqiScores.good, Lit(0))
    /\ Gt(conditions.suitable, Lit(0))

\* ------------------------------------------------------------------------
\* C3: when the greatest activation is greater than 0, the returned label
\* has that activation, and among the labels sharing it it is the first in
\* the order excellent, good, suitable, moderate, poor, hazardous.
\* ------------------------------------------------------------------------
C3_FirstGreatestWins ==
    (Returned /\ FiniteInputs /\ PositiveLabels(conditions) # {}) =>
        condition = Earliest(GreatestIn(conditions, LabelSet))

\* a call in which two labels share the greatest activation
C3_Witness ==
    /\ Returned
    /\ FiniteInputs
    /\ PositiveLabels(conditions) # {}
    /\ Cardinality(GreatestIn(conditions, LabelSet)) >= 2
    /\ condition # "moderate"

\* ------------------------------------------------------------------------
\* C4: when all six activations are exactly 0 the result is moderate.
\* ------------------------------------------------------------------------
AllZero == \A l \in LabelSet : conditions[l] = Lit(0)

C4_AllZeroGivesModerate == (Returned /\ AllZero) => condition = "moderate"

C4_Witness == Returned /\ AllZero

\* ------------------------------------------------------------------------
\* C5: at absDeviation = 30 and = 80 the two branches of the AQI moderate
\* membership evaluate to the same value, and at absDeviation = 70 and = 150
\* so do the two branches of the AQI poor membership.
\* ------------------------------------------------------------------------
C5_AqiBranchesAgree ==
    (Returned /\ ~IsNaN(deviationOfCall)) =>
        LET a == MathAbs(deviationOfCall)
        IN  /\ a \in {Lit(30), Lit(80)} =>
                   AqiModerateInRange(a) = AqiModerateOutOfRange(a)
            /\ a \in {Lit(70), Lit(150)} =>
                   AqiPoorInRange(a) = AqiPoorOutOfRange(a)

\* ------------------------------------------------------------------------
\* C6: at t = 18 and t = 26 the plateau value 1 of the temperature
\* comfortable membership equals the adjacent ramp, and at h = 30 and h = 60
\* the same holds of the humidity comfortable membership.
\* ------------------------------------------------------------------------
C6_ComfortableBranchesAgree ==
    Returned =>
        /\ temp = Lit(18) =>
               tempScores.comfortable = Lit(1) /\ TempComfortableBelow(temp) = Lit(1)
        /\ temp = Lit(26) =>
               tempScores.comfortable = Lit(1) /\ TempComfortableAbove(temp) = Lit(1)
        /\ humidity = Lit(30) =>
               humidityScores.comfortable = Lit(1) /\ HumComfortableBelow(humidity) = Lit(1)
        /\ humidity = Lit(60) =>
               humidityScores.comfortable = Lit(1) /\ HumComfortableAbove(humidity) = Lit(1)

C6_Witness == Returned /\ temp = Lit(26) /\ humidity = Lit(60)

\* ------------------------------------------------------------------------
\* C7: scenario A (deviation 0, 22.0 C, 45.0 %) gives activations
\* 1, 0.25, 0, 0, 0, 0 and excellent; scenario B (306 against 200, 26.70 C,
\* 52.00 %, the reading fetchSensorData supplies) gives 0, 0, 0, 0, 0.72, 0
\* and poor.
\* ------------------------------------------------------------------------
ScenarioA ==
    /\ deviationOfCall = Lit(0)
    /\ temp = Lit(22)
    /\ humidity = Lit(45)

ScenarioB ==
    /\ mq135Raw = Lit(306)
    /\ baseline = Lit(200)
    /\ temp = Tenths(267)
    /\ humidity = Lit(52)

C7_ReferenceScenarios ==
    /\ (Returned /\ ScenarioA) =>
           /\ conditions = [excellent |-> Lit(1), good |-> Num(Unit \div 4),
                            suitable |-> Lit(0), moderate |-> Lit(0),
                            poor |-> Lit(0), hazardous |-> Lit(0)]
           /\ condition = "excellent"
    /\ (Returned /\ ScenarioB) =>
           /\ conditions = [excellent |-> Lit(0), good |-> Lit(0),
                            suitable |-> Lit(0), moderate |-> Lit(0),
                            poor |-> Num((72 * Unit) \div 100),
                            hazardous |-> Lit(0)]
           /\ condition = "poor"
           /\ mq135Raw = simulatedData.mq135
           /\ baseline = simulatedData.baseline
           /\ deviationOfCall = simulatedData.deviation
           /\ temp = simulatedData.temperature
           /\ humidity = simulatedData.humidity

C7_Witness == Returned /\ ScenarioB /\ condition = "poor"

\* ------------------------------------------------------------------------
\* C8: with a NaN input the call still returns; every activation computed
\* from a NaN membership is NaN and is not selected; the result is the
\* greatest activation that is a number greater than 0 (earliest label on a
\* tie), and moderate when there is none.
\* ------------------------------------------------------------------------
\* the activations whose rule reads the AQI, temperature, humidity vector
ReadsAqi == LabelSet

ReadsTemp == LabelSet

ReadsHumidity == LabelSet \ {"suitable"}

C8_NaNDegradesGracefully ==
    (Returned /\ ~FiniteInputs) =>
        /\ IsNaN(deviationOfCall) => \A l \in ReadsAqi : IsNaN(conditions[l])
        /\ IsNaN(temp) => \A l \in ReadsTemp : IsNaN(conditions[l])
        /\ IsNaN(humidity) => \A l \in ReadsHumidity : IsNaN(conditions[l])
        /\ condition \in LabelSet
        /\ ~IsNaN(conditions[condition]) \/ condition = "moderate"
        /\ condition =
               IF PositiveLabels(conditions) = {}
               THEN "moderate"
               ELSE Earliest(GreatestIn(conditions, PositiveLabels(conditions)))

\* humidity is NaN and the one activation that does not read it is selected
C8_Witness ==
    /\ Returned
    /\ IsNaN(humidity)
    /\ ~IsNaN(deviationOfCall)
    /\ ~IsNaN(temp)
    /\ IsNaN(conditions.moderate)
    /\ condition = "suitable"

\* ------------------------------------------------------------------------
\* C9: for temperature and humidity that are numbers, whenever
\* |rawGasValue - baselineValue| >= 200 the result is hazardous.
\* ------------------------------------------------------------------------
C9_LargeDeviationIsHazardous ==
    (/\ Returned
     /\ ~IsNaN(temp)
     /\ ~IsNaN(humidity)
     /\ Ge(MathAbs(deviationOfCall), Lit(200))) => condition = "hazardous"

\* ------------------------------------------------------------------------
\* C10: in every reachable state of the component with isConfigured false,
\* data is null, connected is false and error is null; and a handleIpChange
\* whose trimmed input is empty changes no state.
\* ------------------------------------------------------------------------
Unconfigured == ~isConfigured => (data = Null /\ connected = FALSE /\ error = NoError)

BlankIpChangesNothing ==
    (lastCall' = "handleIpChange" /\ Trim(inputIp) = <<>>) =>
        UNCHANGED <<hookState, interval, effectPending>>

C10_UnconfiguredIsBlank == []Unconfigured /\ [][BlankIpChangesNothing]_vars

\* after connecting, polling and reconfiguring, a blank handleIpChange ran
C10_Witness ==
    /\ ~isConfigured
    /\ Truthy(ipAddress)
    /\ ~interval
    /\ Trim(inputIp) = <<>>
    /\ lastCall = "handleIpChange"

====
